---- MODULE Spec2Model ----
(***************************************************************************)
(* Watershaper: sizing of infiltration basins, wadis and trapezoidal       *)
(* infiltration ditches (watershaperversiontest21.11.2024.py) and the      *)
(* half-ellipsoid calculator (infil.py).                                   *)
(*                                                                         *)
(* Python floats are IEEE-754 binary64.  The page scripts are modelled     *)
(* with binary64 arithmetic (round to nearest, ties to even) built on      *)
(* arbitrary-precision naturals; the ditch solver is modelled a second     *)
(* time in exact arithmetic (rationals and one square root) for the        *)
(* statements made "in exact arithmetic".                                  *)
(***************************************************************************)
EXTENDS Integers, Sequences, FiniteSets, TLC

VARIABLES
    script,     \* which script runs: "watershaper" or "infil"
    pc,         \* position in the current script run
    inp,        \* widget values of the current run
    page,       \* module-level names of the script run
    minimizer,  \* the half-ellipsoid minimizer: calls made, last report
    out,        \* what the run has written to the page
    session,    \* st.session_state
    call        \* a direct call of calculate_infiltration_ditch (exact arithmetic)

vars == <<script, pc, inp, page, minimizer, out, session, call>>

(***************************************************************************)
(* Arbitrary-precision naturals: little-endian sequences of limbs in       *)
(* 0..Base-1 without leading zero limbs; <<>> is zero.  A value computed   *)
(* once and used several times is handed on as an operator's argument.     *)
(***************************************************************************)
Base == 2^15

RECURSIVE IntBitLen(_)
IntBitLen(k) == IF k = 0 THEN 0 ELSE 1 + IntBitLen(k \div 2)

LimbBits == IntBitLen(Base) - 1

Limb(x, i) == IF 1 <= i /\ i <= Len(x) THEN x[i] ELSE 0

RECURSIVE BNorm(_)
BNorm(x) ==
    IF x = <<>> THEN x
    ELSE IF x[Len(x)] = 0 THEN BNorm(SubSeq(x, 1, Len(x) - 1)) ELSE x

RECURSIVE BFromInt(_)
BFromInt(k) == IF k = 0 THEN <<>> ELSE <<k % Base>> \o BFromInt(k \div Base)

RECURSIVE BToInt(_)
BToInt(x) == IF x = <<>> THEN 0 ELSE x[1] + Base * BToInt(Tail(x))

\* x + y from limb i up, s the sum of the limbs at i and the carry
RECURSIVE BAddFrom(_, _, _, _)
BAddFrom(x, y, i, s) ==
    IF i > Len(x) /\ i > Len(y)
    THEN (IF s = 0 THEN <<>> ELSE <<s>>)
    ELSE <<s % Base>> \o BAddFrom(x, y, i + 1, Limb(x, i + 1) + Limb(y, i + 1) + s \div Base)

BAdd(x, y) == BAddFrom(x, y, 1, Limb(x, 1) + Limb(y, 1))

\* x - y for x >= y from limb i up, s the difference of the limbs at i less
\* the borrow
RECURSIVE BSubFrom(_, _, _, _)
BSubFrom(x, y, i, s) ==
    IF i > Len(x) THEN <<>>
    ELSE IF s < 0
         THEN <<s + Base>> \o BSubFrom(x, y, i + 1, Limb(x, i + 1) - Limb(y, i + 1) - 1)
         ELSE <<s>> \o BSubFrom(x, y, i + 1, Limb(x, i + 1) - Limb(y, i + 1))

BSub(x, y) == BNorm(BSubFrom(x, y, 1, Limb(x, 1) - Limb(y, 1)))

\* -1, 0, 1 as x < y, x = y, x > y
RECURSIVE BCmpFrom(_, _, _)
BCmpFrom(x, y, i) ==
    IF i = 0 THEN 0
    ELSE IF x[i] < y[i] THEN -1
    ELSE IF x[i] > y[i] THEN 1
    ELSE BCmpFrom(x, y, i - 1)

BCmp(x, y) ==
    IF Len(x) < Len(y) THEN -1
    ELSE IF Len(x) > Len(y) THEN 1
    ELSE BCmpFrom(x, y, Len(x))

\* x * k for 0 <= k < Base from limb i up, s the product at i plus the carry
RECURSIVE BMulSmallFrom(_, _, _, _)
BMulSmallFrom(x, k, i, s) ==
    IF i > Len(x) THEN (IF s = 0 THEN <<>> ELSE <<s>>)
    ELSE <<s % Base>> \o BMulSmallFrom(x, k, i + 1, Limb(x, i + 1) * k + s \div Base)

BMulSmall(x, k) == IF k = 0 THEN <<>> ELSE BMulSmallFrom(x, k, 1, Limb(x, 1) * k)

Zeros(n) == [i \in 1..n |-> 0]

RECURSIVE BMulFrom(_, _, _)
BMulFrom(x, y, i) ==
    IF i > Len(x) THEN <<>>
    ELSE BAdd(IF x[i] = 0 THEN <<>> ELSE Zeros(i - 1) \o BMulSmall(y, x[i]),
              BMulFrom(x, y, i + 1))

BMul(x, y) == IF x = <<>> \/ y = <<>> THEN <<>> ELSE BMulFrom(x, y, 1)

\* floor(x / k) for 0 < k < Base from limb i down, s the remainder so far
\* times Base plus the limb at i
RECURSIVE BDivSmallFrom(_, _, _, _)
BDivSmallFrom(x, k, i, s) ==
    IF i = 0 THEN <<>>
    ELSE BDivSmallFrom(x, k, i - 1, (s % k) * Base + Limb(x, i - 1)) \o <<s \div k>>

BDivSmall(x, k) == BNorm(BDivSmallFrom(x, k, Len(x), Limb(x, Len(x))))

BShl(x, n) ==
    IF x = <<>> THEN x
    ELSE Zeros(n \div LimbBits) \o BMulSmall(x, 2^(n % LimbBits))

BShr(x, n) ==
    IF Len(x) <= n \div LimbBits THEN <<>>
    ELSE BDivSmall(SubSeq(x, n \div LimbBits + 1, Len(x)), 2^(n % LimbBits))

BBitLen(x) == IF x = <<>> THEN 0 ELSE (Len(x) - 1) * LimbBits + IntBitLen(x[Len(x)])

BIsOdd(x) == x # <<>> /\ x[1] % 2 = 1

\* the largest d with y * d <= r, counting down from an estimate d >= it
RECURSIVE BDigitFrom(_, _, _)
BDigitFrom(r, y, d) ==
    IF BCmp(BMulSmall(y, d), r) <= 0 THEN d ELSE BDigitFrom(r, y, d - 1)

BDigitEstimate(est) == IF est > Base - 1 THEN Base - 1 ELSE est

\* the quotient digit floor(r / y) for r < y * Base, where the top limb of y
\* is at least Base / 2: the two top limbs of r divided by the top limb of y
\* are at most two above it (Knuth, TAOCP 4.3.1, algorithm D)
BDigit(r, y) ==
    BDigitFrom(r, y, BDigitEstimate((Limb(r, Len(y) + 1) * Base + Limb(r, Len(y)))
                                        \div y[Len(y)]))

\* <<floor(x / y), x mod y>> by long division from limb i of x down, for y
\* with a top limb of at least Base / 2; q holds the quotient's limbs found
\* so far, r the running remainder, d the digit found at limb i
RECURSIVE BDivModFrom(_, _, _, _, _)
RECURSIVE BDivModDigit(_, _, _, _, _, _)
BDivModFrom(x, y, i, q, r) ==
    IF i = 0 THEN <<BNorm(q), r>>
    ELSE IF Len(r) >= 0
         THEN BDivModDigit(x, y, i, q, BNorm(<<x[i]>> \o r), BDigit(BNorm(<<x[i]>> \o r), y))
         ELSE <<q, r>>

BDivModDigit(x, y, i, q, r, d) ==
    BDivModFrom(x, y, i - 1, <<d>> \o q, BSub(r, BMulSmall(y, d)))

BDivModLong(x, y) == BDivModFrom(x, y, Len(x), <<>>, <<>>)

BDivModShifted(qr, sh) == <<qr[1], BShr(qr[2], sh)>>

BDivModBy(x, y, sh) == BDivModShifted(BDivModLong(BShl(x, sh), BShl(y, sh)), sh)

\* <<floor(x / y), x mod y>> for y > 0: both are shifted so that the top limb
\* of the divisor is at least Base / 2, and the remainder is shifted back
BDivMod(x, y) == BDivModBy(x, y, LimbBits - IntBitLen(y[Len(y)]))

\* floor(sqrt(x)) by Newton's iteration from an estimate r >= sqrt(x)
RECURSIVE BSqrtFrom(_, _)
BSqrtNext(x, r, next) == IF BCmp(next, r) >= 0 THEN r ELSE BSqrtFrom(x, next)

BSqrtFrom(x, r) == BSqrtNext(x, r, BShr(BAdd(r, BDivMod(x, r)[1]), 1))

BSqrt(x) == IF x = <<>> THEN x ELSE BSqrtFrom(x, BShl(<<1>>, (BBitLen(x) + 1) \div 2))

(***************************************************************************)
(* IEEE-754 binary64 (Python float), finite values in the normal range:    *)
(* [s, m, e] is s * m * 2^e with s in {1, -1} and 2^52 <= m < 2^53, or     *)
(* m = <<>> for zero.  Every operation rounds the exact result to nearest, *)
(* ties to even.  The magnitudes of this program stay far inside the       *)
(* normal range, so subnormals, infinities and NaN do not arise.           *)
(***************************************************************************)
\* 52 stored fraction bits and the implicit leading bit
Precision == 52 + 1

FPack(s, m, e) == [s |-> s, m |-> m, e |-> e]

FZero == FPack(1, <<>>, 0)

\* q has Precision bits, or one more after rounding up to a power of two
FRenorm(s, q, e) ==
    IF BBitLen(q) > Precision THEN FPack(s, BShr(q, 1), e + 1) ELSE FPack(s, q, e)

FRoundUp(s, q, e, up) == IF up THEN FRenorm(s, BAdd(q, <<1>>), e) ELSE FPack(s, q, e)

\* c compares the bits dropped with one half of the last bit kept
FRoundsUp(c, sticky, odd) == c > 0 \/ (c = 0 /\ (sticky \/ odd))

\* q is n without its sh lowest bits
FRoundShift(s, n, e, sticky, sh, q) ==
    FRoundUp(s, q, e + sh,
             FRoundsUp(BCmp(BSub(n, BShl(q, sh)), BShl(<<1>>, sh - 1)), sticky, BIsOdd(q)))

FRoundLen(s, n, e, sticky, len) ==
    IF len <= Precision
    THEN FPack(s, BShl(n, Precision - len), e - (Precision - len))
    ELSE FRoundShift(s, n, e, sticky, len - Precision, BShr(n, len - Precision))

\* s * (n + f) * 2^e rounded, where 0 < f < 1 when sticky and f = 0 otherwise;
\* n has more than Precision + 1 bits when sticky
FRound(s, n, e, sticky) ==
    IF n = <<>> THEN FZero ELSE FRoundLen(s, n, e, sticky, BBitLen(n))

FromInt(k) == FRound(IF k < 0 THEN -1 ELSE 1, BFromInt(IF k < 0 THEN -k ELSE k), 0, FALSE)

FIsZero(x) == x.m = <<>>

FNeg(x) == IF FIsZero(x) THEN x ELSE [x EXCEPT !.s = -x.s]

FMul(x, y) ==
    IF FIsZero(x) \/ FIsZero(y) THEN FZero
    ELSE FRound(x.s * y.s, BMul(x.m, y.m), x.e + y.e, FALSE)

FDivRound(s, qr, e) == FRound(s, qr[1], e, qr[2] # <<>>)

\* x / y for y # 0 (Python raises ZeroDivisionError for y = 0: see the callers)
FDiv(x, y) ==
    IF FIsZero(x) THEN FZero
    ELSE FDivRound(x.s * y.s, BDivMod(BShl(x.m, Precision + 2), y.m),
                   x.e - y.e - (Precision + 2))

\* magnitudes: -1, 0, 1 as |x| < |y|, |x| = |y|, |x| > |y|
FCmpAbs(x, y) ==
    IF FIsZero(x) THEN (IF FIsZero(y) THEN 0 ELSE -1)
    ELSE IF FIsZero(y) THEN 1
    ELSE IF x.e < y.e THEN -1
    ELSE IF x.e > y.e THEN 1
    ELSE BCmp(x.m, y.m)

FCmp(x, y) ==
    IF FIsZero(x) /\ FIsZero(y) THEN 0
    ELSE IF FIsZero(x) THEN -y.s
    ELSE IF FIsZero(y) THEN x.s
    ELSE IF x.s # y.s THEN x.s
    ELSE x.s * FCmpAbs(x, y)

FLess(x, y) == FCmp(x, y) < 0
FLeq(x, y)  == FCmp(x, y) <= 0

\* nx * 2^e and ny * 2^e are the magnitudes, c compares them
FAddMagnitudes(sx, sy, nx, ny, e, c) ==
    FRound(IF sx = sy \/ c >= 0 THEN sx ELSE sy,
           IF sx = sy THEN BAdd(nx, ny)
           ELSE IF c >= 0 THEN BSub(nx, ny) ELSE BSub(ny, nx),
           e, FALSE)

FAddAligned(sx, sy, nx, ny, e) == FAddMagnitudes(sx, sy, nx, ny, e, BCmp(nx, ny))

FAddAt(x, y, e) == FAddAligned(x.s, y.s, BShl(x.m, x.e - e), BShl(y.m, y.e - e), e)

\* x + y; the exponents of this program's operands differ by far less than
\* the width of a limb sequence, so the exact sum is formed and rounded once
FAdd(x, y) ==
    IF FIsZero(x) THEN y
    ELSE IF FIsZero(y) THEN x
    ELSE FAddAt(x, y, IF x.e < y.e THEN x.e ELSE y.e)

FSub(x, y) == FAdd(x, FNeg(y))

FSqrtRoot(n, root, e) == FRound(1, root, e, BMul(root, root) # n)

FSqrtOf(n, e) == FSqrtRoot(n, BSqrt(n), e)

\* x.m * 2^x.e = (x.m * 2^k) * 2^(x.e - k) with x.e - k even
FSqrtShift(x, k) == FSqrtOf(BShl(x.m, k), (x.e - k) \div 2)

\* math.sqrt(x) for x >= 0
FSqrt(x) ==
    IF FIsZero(x) THEN FZero
    ELSE FSqrtShift(x, IF (x.e - (Precision + 3)) % 2 = 0
                       THEN Precision + 3 ELSE Precision + 4)

\* the float a decimal literal num/den denotes
FromDecimal(num, den) == FDiv(FromInt(num), FromInt(den))

\* n * 2^(-sh) rounded to an integer, ties to even; q is its integer part
FFormatRound(n, sh, q) ==
    BToInt(IF FRoundsUp(BCmp(BSub(n, BShl(q, sh)), BShl(<<1>>, sh - 1)), FALSE, BIsOdd(q))
           THEN BAdd(q, <<1>>) ELSE q)

FFormatScaled(n, sh) ==
    IF sh <= 0 THEN BToInt(BShl(n, -sh)) ELSE FFormatRound(n, sh, BShr(n, sh))

\* round(x * scale) to an integer, ties to even on the exact value: what
\* format(x, ".0f") (scale 1) and format(x, ".2f") (scale 100) print
FFormat(x, scale) ==
    IF FIsZero(x) THEN 0 ELSE x.s * FFormatScaled(BMulSmall(x.m, scale), -x.e)

(***************************************************************************)
(* Exact arithmetic: rationals <<n, d>> in lowest terms with d > 0, and    *)
(* numbers [q, rad] standing for q * sqrt(rad), q and rad rationals with   *)
(* rad = 1 for a rational number.  math.sqrt of a rational that is no      *)
(* perfect square stays a square root; the ditch solver only ever          *)
(* multiplies, divides and compares such numbers.                          *)
(***************************************************************************)
Abs(k) == IF k < 0 THEN -k ELSE k

RECURSIVE Gcd(_, _)
Gcd(a, b) == IF b = 0 THEN a ELSE Gcd(b, a % b)

Rat(n, d) ==
    LET g == Gcd(Abs(n), Abs(d))
    IN  IF d < 0 THEN <<(-n) \div g, (-d) \div g>> ELSE <<n \div g, d \div g>>

RatMul(x, y) ==
    LET a == Rat(x[1], y[2])
        b == Rat(y[1], x[2])
    IN  <<a[1] * b[1], a[2] * b[2]>>

RatInv(x) == Rat(x[2], x[1])

RatAdd(x, y) ==
    LET g == Gcd(x[2], y[2])
    IN  Rat(x[1] * (y[2] \div g) + y[1] * (x[2] \div g), (x[2] \div g) * y[2])

RatNeg(x) == <<-x[1], x[2]>>

\* x < y for x, y >= 0, by comparing integer parts and then the remainders'
\* reciprocals (no product of a numerator and a denominator is formed)
RECURSIVE RatLess(_, _)
RatLess(x, y) ==
    LET ix == x[1] \div x[2]
        iy == y[1] \div y[2]
        rx == x[1] % x[2]
        ry == y[1] % y[2]
    IN  IF ix # iy THEN ix < iy
        ELSE IF ry = 0 THEN FALSE
        ELSE IF rx = 0 THEN TRUE
        ELSE RatLess(<<y[2], ry>>, <<x[2], rx>>)

\* floor(sqrt(n)) between lo and hi, by bisection
RECURSIVE ISqrtIn(_, _, _)
ISqrtIn(n, lo, hi) ==
    IF lo = hi THEN lo
    ELSE LET mid == (lo + hi + 1) \div 2
         IN  IF mid * mid <= n THEN ISqrtIn(n, mid, hi) ELSE ISqrtIn(n, lo, mid - 1)

ISqrt(n) == ISqrtIn(n, 0, IF n < 46340 THEN n ELSE 46340)

IsSquare(n) == ISqrt(n) * ISqrt(n) = n

XRat(n, d) == [q |-> Rat(n, d), rad |-> <<1, 1>>]

XZero == XRat(0, 1)

XIsZero(x) == x.q[1] = 0

XIsRational(x) == x.rad = <<1, 1>>

XAdd(x, y) == [q |-> RatAdd(x.q, y.q), rad |-> <<1, 1>>]

XSub(x, y) == [q |-> RatAdd(x.q, RatNeg(y.q)), rad |-> <<1, 1>>]

XMul(x, y) ==
    IF XIsZero(x) \/ XIsZero(y) THEN XZero
    ELSE IF XIsRational(x) THEN [q |-> RatMul(x.q, y.q), rad |-> y.rad]
    ELSE IF XIsRational(y) THEN [q |-> RatMul(x.q, y.q), rad |-> x.rad]
    ELSE [q |-> RatMul(RatMul(x.q, y.q), x.rad), rad |-> <<1, 1>>]

\* 1 / (q * sqrt(rad)) = (1 / (q * rad)) * sqrt(rad)
XInv(x) ==
    IF XIsRational(x) THEN [q |-> RatInv(x.q), rad |-> x.rad]
    ELSE [q |-> RatInv(RatMul(x.q, x.rad)), rad |-> x.rad]

\* x / y for y # 0
XDiv(x, y) == XMul(x, XInv(y))

XSquare(x) == RatMul(RatMul(x.q, x.q), x.rad)

\* x < y for x, y >= 0
XLess(x, y) == RatLess(XSquare(x), XSquare(y))

XLeq(x, y) == ~XLess(y, x)

\* math.sqrt(x) for a rational x >= 0
XSqrt(x) ==
    IF IsSquare(x.q[1]) /\ IsSquare(x.q[2])
    THEN XRat(ISqrt(x.q[1]), ISqrt(x.q[2]))
    ELSE [q |-> <<1, 1>>, rad |-> x.q]

(***************************************************************************)
(* calculate_infiltration_ditch in exact arithmetic.                       *)
(* A call either returns (volume, surface_area, length) or raises          *)
(* ZeroDivisionError, as Python's float division does for a zero divisor.  *)
(***************************************************************************)
\* line 63: the divisor of the volume-driven length
length_divisor_exact(width, depth) ==
    XMul(XDiv(XAdd(XMul(width, XRat(1, 2)), width), XRat(2, 1)), depth)

\* line 66
base_width_exact(width) == XMul(width, XRat(1, 2))

\* line 67
slant_height_exact(width, depth) ==
    XSqrt(XAdd(XDiv(XMul(XSub(width, base_width_exact(width)),
                         XSub(width, base_width_exact(width))),
                    XRat(4, 1)),
               XMul(depth, depth)))

\* lines 70-74: the two slanted walls (base_area and top_area are computed
\* and not used)
calculate_surface_area_exact(width, depth, length) ==
    XMul(XRat(2, 1), XMul(slant_height_exact(width, depth), length))

\* line 82 with the ratio inverted
scale_factor_inverted(min_surface_area, current_surface_area) ==
    XDiv(current_surface_area, min_surface_area)

\* line 82
scale_factor_exact(min_surface_area, current_surface_area) ==
    XDiv(min_surface_area, current_surface_area)

\* line 86
ditch_volume_exact(width, depth, length) ==
    XMul(XMul(XDiv(XAdd(base_width_exact(width), width), XRat(2, 1)), depth), length)

Raised(line) == [kind |-> "ZeroDivisionError", line |-> line]

calculate_infiltration_ditch_exact(width, depth, min_volume, min_surface_area) ==
    IF XIsZero(length_divisor_exact(width, depth)) THEN Raised(63)
    ELSE LET length0   == XDiv(min_volume, length_divisor_exact(width, depth))
             current   == calculate_surface_area_exact(width, depth, length0)
             corrected == XLess(current, min_surface_area)
         IN  IF corrected /\ XIsZero(current) THEN Raised(82)
             ELSE LET length == IF corrected
                                THEN XMul(length0, scale_factor_exact(min_surface_area, current))
                                ELSE length0
                  IN  [kind         |-> "return",
                       volume       |-> ditch_volume_exact(width, depth, length),
                       surface_area |-> calculate_surface_area_exact(width, depth, length),
                       length       |-> length,
                       corrected    |-> corrected]

(***************************************************************************)
(* Direct calls of the ditch solver: the arguments are drawn from grids    *)
(* that hold zero, the page's ditch width 1.5 and slider depths, and the   *)
(* requirements of roofs of 0, 10, 20, ... square metres.                  *)
(***************************************************************************)
MaxWidthHalves == 3
MaxDepthSteps == 2
MaxReq == 5

\* line 127: the slider runs from 0.3 to 1.0 in steps of 0.1
SliderMinTenths == 3
SliderMaxTenths == 10
SliderTenths == {t \in SliderMinTenths..SliderMaxTenths : t <= SliderMinTenths + MaxDepthSteps}

DitchWidths == {XRat(k, 2) : k \in 0..MaxWidthHalves}
DitchDepths == {XRat(t, 10) : t \in {0} \cup SliderTenths}
DitchVolumes == {XRat(33 * i, 100) : i \in 0..MaxReq}
DitchSurfaces == {XRat(8 * j, 10) : j \in 0..MaxReq}

NoCall == [state |-> "none"]

InitDitch ==
    /\ script = "none" /\ pc = "none" /\ inp = "none" /\ page = "none"
    /\ minimizer = "none" /\ out = "none" /\ session = "none"
    /\ call \in [state : {"args"}, width : DitchWidths, depth : DitchDepths,
                 min_volume : DitchVolumes, min_surface_area : DitchSurfaces,
                 outcome : {"pending"}]

DitchCall ==
    /\ call.state = "args"
    /\ call' = [call EXCEPT
                  !.state = "done",
                  !.outcome = calculate_infiltration_ditch_exact(
                                  call.width, call.depth, call.min_volume,
                                  call.min_surface_area)]
    /\ UNCHANGED <<script, pc, inp, page, minimizer, out, session>>

NextDitch == DitchCall

SpecDitch == InitDitch /\ [][NextDitch]_vars

DitchDone == call.state = "done"
DitchReturned == DitchDone /\ call.outcome.kind = "return"
XPositive(x) == ~XIsZero(x)

\* the length that makes the trapezoidal volume equal min_volume, and the
\* surface area of the two slanted walls at a length, as the specification
\* states them
SpecBaseWidth == XMul(XRat(1, 2), call.width)
SpecSlantHeight ==
    XSqrt(XAdd(XMul(XDiv(XSub(call.width, SpecBaseWidth), XRat(2, 1)),
                    XDiv(XSub(call.width, SpecBaseWidth), XRat(2, 1))),
               XMul(call.depth, call.depth)))
SpecVolumeLength ==
    XDiv(call.min_volume,
         XMul(XDiv(XAdd(SpecBaseWidth, call.width), XRat(2, 1)), call.depth))
SpecSurfaceAt(length) == XMul(XMul(XRat(2, 1), SpecSlantHeight), length)

\* C3: for width > 0, depth > 0, min_volume > 0 and min_surface_area >= 0 the
\* call returns a surface area >= min_surface_area after the one proportional
\* correction: when the surface area at the volume-driven length is below
\* min_surface_area the returned surface area equals min_surface_area, and
\* otherwise length and surface area are those of the volume-driven length.
DitchSurfaceMet ==
    (DitchDone /\ XPositive(call.width) /\ XPositive(call.depth)
               /\ XPositive(call.min_volume))
    => /\ call.outcome.kind = "return"
       /\ XLeq(call.min_surface_area, call.outcome.surface_area)
       /\ IF XLess(SpecSurfaceAt(SpecVolumeLength), call.min_surface_area)
          THEN call.outcome.surface_area = call.min_surface_area
          ELSE /\ call.outcome.length = SpecVolumeLength
               /\ call.outcome.surface_area = SpecSurfaceAt(SpecVolumeLength)

\* the specification's example: width 1.5, depth 0.5, min_volume 1.65 and
\* min_surface_area 4.0 are corrected to length 3.2 with surface area 4
DitchCorrectedWitness ==
    /\ DitchReturned
    /\ call.width = XRat(3, 2) /\ call.depth = XRat(1, 2)
    /\ call.min_volume = XRat(165, 100) /\ call.min_surface_area = XRat(4, 1)
    /\ call.outcome.corrected
    /\ call.outcome.length = XRat(32, 10)
    /\ call.outcome.surface_area = XRat(4, 1)

\* C4: with min_volume = 0 and min_surface_area = 0 (width > 0, depth > 0) the
\* call does not raise and returns a strictly positive length.
DitchZeroRequirementsPositiveLength ==
    (DitchDone /\ XPositive(call.width) /\ XPositive(call.depth)
               /\ XIsZero(call.min_volume) /\ XIsZero(call.min_surface_area))
    => /\ call.outcome.kind = "return"
       /\ XLess(XZero, call.outcome.length)

\* C5: when the divisor of the correction is zero while min_surface_area > 0,
\* or the divisor of the length is zero, the call returns a DegenerateGeometry
\* failure as a value and raises nothing.
DitchDegenerateReturned ==
    (DitchDone
       /\ \/ XIsZero(call.width)
          \/ XIsZero(call.depth)
          \/ (XIsZero(call.min_volume) /\ XPositive(call.min_surface_area)))
    => call.outcome.kind = "DegenerateGeometry"

(***************************************************************************)
(* Geometry and solvers of the page scripts, in binary64.                  *)
(***************************************************************************)
\* math.pi = 0x1.921fb54442d18p+1
math_pi == FPack(1, <<11544, 10376, 2029, 201>>, -51)

\* a value entered or shown with one decimal (k tenths), with two (k hundredths)
Tenths(k) == FromDecimal(k, 10)
Hundredths(k) == FromDecimal(k, 100)

\* Python's None, as a value that can be compared with a float: it has no sign
None == FPack(0, <<>>, 0)

\* ellipsoid_surface_area_one_side raises to the powers 1.6075 and 1/1.6075;
\* its value is kept as the application to its arguments
ellipsoid_surface_area_one_side(a, b, c) ==
    <<"ellipsoid_surface_area_one_side", a, b, c>>

\* (2 / 3) * math.pi * a * b * c, evaluated left to right
ellipsoid_volume(a, b, c) ==
    FMul(FMul(FMul(FMul(FDiv(FromInt(2), FromInt(3)), math_pi), a), b), c)

\* watershaper lines 29-48: what calculate_ellipsoid hands to opt.minimize
minimize_request(min_surface_area, min_volume, depth) ==
    [objective     |-> "abs(surface_area - min_surface_area) + abs(volume - min_volume)",
     initial_guess |-> <<FDiv(min_surface_area, FromInt(100)),
                         FDiv(min_surface_area, FromInt(80))>>,
     args          |-> <<min_surface_area, depth, min_volume>>,
     bounds        |-> <<<<Tenths(1), FromInt(100)>>, <<Tenths(1), FromInt(100)>>>>,
     constraints   |-> {"ellipsoid_volume(a, b, c) - min_volume >= 0",
                        "b - 1.5 * a >= 0"}]

\* lines 50-54 falling back to the initial guess when the minimizer fails
calculate_ellipsoid_defaulting(result, x0, c) ==
    IF result.success THEN <<result.x[1], result.x[2], c>> ELSE <<x0[1], x0[2], c>>

\* watershaper lines 50-54: what calculate_ellipsoid returns for the
\* minimizer's result at depth c, the initial guess being x0
calculate_ellipsoid(result, x0, c) ==
    IF result.success THEN <<result.x[1], result.x[2], c>> ELSE <<None, None, None>>

\* infil.py lines 33-42
infil_minimize_request(min_surface_area, min_volume, depth) ==
    [objective     |-> "penalty + a + b",
     initial_guess |-> <<Tenths(5), FromInt(1)>>,
     args          |-> <<min_surface_area, min_volume, depth>>,
     bounds        |-> <<<<Tenths(1), FromInt(5)>>, <<Tenths(1), FromInt(5)>>>>,
     constraints   |-> {}]

\* infil.py lines 44-48
infil_calculate_ellipsoid(result, x0) ==
    IF result.success THEN <<result.x[1], result.x[2]>> ELSE <<None, None>>

\* watershaper line 63: (width * 0.5 + width) / 2 * depth
length_divisor(width, depth) ==
    FMul(FDiv(FAdd(FMul(width, Tenths(5)), width), FromInt(2)), depth)

\* line 66
base_width(width) == FMul(width, Tenths(5))

\* line 67: math.sqrt(run**2 / 4 + depth**2) for run = width - base_width
slant_height_of(run, depth) ==
    FSqrt(FAdd(FDiv(FMul(run, run), FromInt(4)), FMul(depth, depth)))

slant_height(width, depth) == slant_height_of(FSub(width, base_width(width)), depth)

\* lines 70-74: the two slanted walls (base_area and top_area are computed
\* and not used)
calculate_surface_area(slant, length) == FMul(FromInt(2), FMul(slant, length))

\* line 82
scale_factor(min_surface_area, current_surface_area) ==
    FDiv(min_surface_area, current_surface_area)

\* line 86: ((base_width + width) / 2) * depth * length
ditch_volume(width, depth, length) ==
    FMul(FMul(FDiv(FAdd(base_width(width), width), FromInt(2)), depth), length)

\* lines 86-90
ditch_return(width, depth, slant, length, corrected) ==
    [kind         |-> "return",
     volume       |-> ditch_volume(width, depth, length),
     surface_area |-> calculate_surface_area(slant, length),
     length       |-> length,
     corrected    |-> corrected]

\* lines 80-83
ditch_correct(width, depth, min_surface_area, slant, length, current) ==
    IF FLess(current, min_surface_area)
    THEN IF FIsZero(current) THEN Raised(82)
         ELSE ditch_return(width, depth, slant,
                           FMul(length, scale_factor(min_surface_area, current)), TRUE)
    ELSE ditch_return(width, depth, slant, length, FALSE)

\* lines 66-77
ditch_at_length(width, depth, min_surface_area, slant, length) ==
    ditch_correct(width, depth, min_surface_area, slant, length,
                  calculate_surface_area(slant, length))

\* line 63
ditch_divide(width, depth, min_volume, min_surface_area, divisor) ==
    IF FIsZero(divisor) THEN Raised(63)
    ELSE ditch_at_length(width, depth, min_surface_area, slant_height(width, depth),
                         FDiv(min_volume, divisor))

\* lines 57-90; roof_area is not used
calculate_infiltration_ditch(width, depth, min_volume, min_surface_area, roof_area) ==
    ditch_divide(width, depth, min_volume, min_surface_area, length_divisor(width, depth))

\* lines 130-131
derive_min_volume(roof_square_meters) ==
    FDiv(FMul(roof_square_meters, FromInt(33)), FromInt(1000))
derive_min_surface_area(roof_square_meters) ==
    FMul(roof_square_meters, Hundredths(8))

\* lines 134-135
adjust_roof(roof_square_meters, has_rainwell) ==
    IF has_rainwell THEN FSub(roof_square_meters, FromInt(30)) ELSE roof_square_meters

\* lines 143-151 with the edge at 80 given to the lower tier
rainwell_dimensioning_edge_below(roof_square_meters) ==
    IF FLeq(roof_square_meters, FromInt(80)) THEN 5000
    ELSE IF FLess(roof_square_meters, FromInt(120)) THEN 7500
    ELSE IF FLess(roof_square_meters, FromInt(200)) THEN 10000
    ELSE FFormat(FMul(roof_square_meters, FromInt(100)), 1)

\* lines 143-151: the litres shown after "Regenput dimensionering:"
rainwell_dimensioning(roof_square_meters) ==
    IF FLess(roof_square_meters, FromInt(80)) THEN 5000
    ELSE IF FLeq(FromInt(80), roof_square_meters) /\ FLess(roof_square_meters, FromInt(120))
         THEN 7500
    ELSE IF FLeq(FromInt(120), roof_square_meters) /\ FLess(roof_square_meters, FromInt(200))
         THEN 10000
    ELSE FFormat(FMul(roof_square_meters, FromInt(100)), 1)

(***************************************************************************)
(* The page scripts.  Streamlit runs the script from its first line on     *)
(* every interaction; one widget changes, or one button is clicked, per    *)
(* run.  A run proceeds: "run" (the script's top), then the clicked        *)
(* button's handler, then "done" (the page as the user sees it).           *)
(***************************************************************************)
RoofWindow == 1
MaxAxisSteps == 1

\* roofs entered, in tenths of a square metre: no roof, the default 50.0
\* (line 125), and the roofs around the tiers' edges with and without the
\* rainwell offset of 30
TierEdges == {80, 110, 120, 150, 200, 230}
RoofTenths == {0, 500} \cup {10 * b + d : b \in TierEdges, d \in -RoofWindow..RoofWindow}

\* the semi-axes a minimizer may report, in tenths, inside both scripts' bounds
AxisTenths == {1} \cup {5 * k : k \in 1..MaxAxisSteps}
Points == {<<Tenths(a), Tenths(b)>> : a \in AxisTenths, b \in AxisTenths}
Reports == [success : {TRUE}, x : Points]
               \cup [success : {FALSE}, x : {<<Tenths(1), Tenths(1)>>}]

\* infil.py lines 53-55: each input is 0.0 or its default, in tenths
InfilInputs == [min_surface_area : {0, 80}, min_volume : {0, 33}, depth : {0, 3},
                button : {"none"}]

\* what the page shows: numbers and results not written are None, texts
\* not written are empty
BlankOut == [tank |-> None, adjusted |-> None, min_volume |-> None,
             min_surface_area |-> None, result |-> None, message |-> "",
             error |-> "", exception |-> ""]
BlankPage == [roof_square_meters |-> None, min_volume |-> None,
              min_surface_area |-> None, depth |-> None, width |-> None,
              length |-> None, ditch |-> None]
IdleMinimizer == [calls |-> 0, request |-> None, result |-> None]

Init ==
    /\ script \in {"watershaper", "infil"}
    /\ pc = "run"
    /\ inp = IF script = "watershaper"
             THEN [roof |-> 500, has_rainwell |-> FALSE, depth |-> 5, button |-> "none"]
             ELSE [min_surface_area |-> 80, min_volume |-> 33, depth |-> 3,
                   button |-> "none"]
    /\ page = BlankPage
    /\ minimizer = IdleMinimizer
    /\ out = BlankOut
    /\ session = [has_results |-> FALSE, results |-> <<>>]
    /\ call = NoCall

\* lines 125-135: the names the script's top binds, entered being the roof
\* the number input holds
derive_page(entered, has_rainwell, depth) ==
    [BlankPage EXCEPT
       !.roof_square_meters = adjust_roof(entered, has_rainwell),
       !.min_volume = derive_min_volume(entered),
       !.min_surface_area = derive_min_surface_area(entered),
       !.depth = depth]

\* watershaper lines 123-155
Derive ==
    /\ script = "watershaper" /\ pc = "run"
    /\ page' = derive_page(Tenths(inp.roof), inp.has_rainwell, Tenths(inp.depth))
    /\ out' = [BlankOut EXCEPT
                 !.adjusted = IF inp.has_rainwell
                              THEN FFormat(page'.roof_square_meters, 100) ELSE None,
                 !.min_volume = FFormat(page'.min_volume, 100),
                 !.min_surface_area = FFormat(page'.min_surface_area, 100),
                 !.tank = rainwell_dimensioning(page'.roof_square_meters)]
    /\ session' = [has_results |-> TRUE,
                   results |-> IF session.has_results THEN session.results ELSE <<>>]
    /\ pc' = IF inp.button = "none" THEN "done" ELSE inp.button
    /\ UNCHANGED <<script, inp, minimizer, call>>

\* watershaper lines 27-48: calculate_ellipsoid up to the return of
\* opt.minimize, which reports any of Reports
Minimize(button, depth) ==
    /\ script = "watershaper" /\ pc = button
    /\ \E r \in Reports :
         minimizer' = [calls   |-> minimizer.calls + 1,
                       request |-> minimize_request(page.min_surface_area,
                                                    page.min_volume, depth),
                       result  |-> r]
    /\ pc' = "show"
    /\ UNCHANGED <<script, inp, page, out, session, call>>

\* lines 160-162 and 185-187
MinimizeInfiltratiekom == Minimize("Bereken Infiltratiekom", Tenths(3))
MinimizeWadi == Minimize("Bereken Wadi", Tenths(5))

\* lines 164-176 and 189-201
ellipsoid_result(width, length, depth) ==
    [Breedte    |-> FFormat(FMul(width, FromInt(2)), 100),
     Lengte     |-> FFormat(FMul(length, FromInt(2)), 100),
     Diepte     |-> FFormat(depth, 100),
     Verhouding |-> FFormat(FDiv(FMul(length, FromInt(2)), FMul(width, FromInt(2))), 100),
     Infiltratie_oppervlakte |-> ellipsoid_surface_area_one_side(width, length, depth),
     Volume     |-> FFormat(ellipsoid_volume(width, length, depth), 100)]

\* lines 177-180, 202-205 and 222-225
volume_message(volume, min_volume) ==
    IF FLess(volume, min_volume)
    THEN "Opgelet: Volume zit onder gevraagde hoeveelheid."
    ELSE "Volume zit boven of is gelijk aan gevraagde hoeveelheid."

\* lines 163-182 and 188-207
show_ellipsoid(ret, min_volume) ==
    IF ret[1] # None /\ ret[2] # None
    THEN [out EXCEPT
            !.result = ellipsoid_result(ret[1], ret[2], ret[3]),
            !.message = volume_message(ellipsoid_volume(ret[1], ret[2], ret[3]),
                                       min_volume)]
    ELSE [out EXCEPT !.error = "Error, controleer parameters"]

\* watershaper lines 50-54 and 162-182 (187-207): calculate_ellipsoid returns
\* and the handler writes the result or the error
ShowEllipsoid ==
    /\ script = "watershaper" /\ pc = "show"
    /\ page' = [page EXCEPT
                  !.width  = calculate_ellipsoid(minimizer.result,
                                 minimizer.request.initial_guess,
                                 minimizer.request.args[2])[1],
                  !.length = calculate_ellipsoid(minimizer.result,
                                 minimizer.request.initial_guess,
                                 minimizer.request.args[2])[2],
                  !.depth  = calculate_ellipsoid(minimizer.result,
                                 minimizer.request.initial_guess,
                                 minimizer.request.args[2])[3]]
    /\ out' = show_ellipsoid(<<page'.width, page'.length, page'.depth>>, page.min_volume)
    /\ pc' = "done"
    /\ UNCHANGED <<script, inp, minimizer, session, call>>

\* line 212
ditch_width == Tenths(15)

\* lines 215-225
show_ditch(ret, width, depth, min_volume) ==
    IF ret.kind = "return"
    THEN [out EXCEPT
            !.result = [Breedte |-> FFormat(width, 100),
                        Lengte  |-> FFormat(ret.length, 100),
                        Diepte  |-> FFormat(depth, 100),
                        Infiltratie_oppervlakte |-> FFormat(ret.surface_area, 100),
                        Volume  |-> FFormat(ret.volume, 100)],
            !.message = volume_message(ret.volume, min_volume)]
    ELSE [out EXCEPT !.exception = ret.kind]

\* lines 210-225; ditch keeps what calculate_infiltration_ditch returned
BerekenInfiltratiegracht ==
    /\ script = "watershaper" /\ pc = "Bereken Infiltratiegracht"
    /\ page' = [page EXCEPT
                  !.width = ditch_width,
                  !.ditch = calculate_infiltration_ditch(
                                 ditch_width, page.depth, page.min_volume,
                                 page.min_surface_area, page.roof_square_meters)]
    /\ out' = show_ditch(page'.ditch, ditch_width, page.depth, page.min_volume)
    /\ pc' = "done"
    /\ UNCHANGED <<script, inp, minimizer, session, call>>

\* infil.py lines 53-57
InfilRun ==
    /\ script = "infil" /\ pc = "run"
    /\ page' = [BlankPage EXCEPT
                  !.min_surface_area = Tenths(inp.min_surface_area),
                  !.min_volume = Tenths(inp.min_volume),
                  !.depth = Tenths(inp.depth)]
    /\ out' = BlankOut
    /\ pc' = IF inp.button = "none" THEN "done" ELSE inp.button
    /\ UNCHANGED <<script, inp, minimizer, session, call>>

\* infil.py lines 31-42
InfilMinimize ==
    /\ script = "infil" /\ pc = "Calculate"
    /\ \E r \in Reports :
         minimizer' = [calls   |-> minimizer.calls + 1,
                       request |-> infil_minimize_request(page.min_surface_area,
                                                          page.min_volume, page.depth),
                       result  |-> r]
    /\ pc' = "show"
    /\ UNCHANGED <<script, inp, page, out, session, call>>

\* infil.py lines 59-63
infil_show(width, length) ==
    IF width # None /\ length # None
    THEN [out EXCEPT
            !.result = [Calculated_width  |-> FFormat(width, 100),
                        Calculated_length |-> FFormat(length, 100)]]
    ELSE [out EXCEPT !.error = "Optimization failed. Check the input values."]

\* infil.py lines 44-48 and 58-63
InfilShow ==
    /\ script = "infil" /\ pc = "show"
    /\ page' = [page EXCEPT
                  !.width  = infil_calculate_ellipsoid(minimizer.result,
                                 minimizer.request.initial_guess)[1],
                  !.length = infil_calculate_ellipsoid(minimizer.result,
                                 minimizer.request.initial_guess)[2]]
    /\ out' = infil_show(page'.width, page'.length)
    /\ pc' = "done"
    /\ UNCHANGED <<script, inp, minimizer, session, call>>

\* the widget states one interaction away from w
Interactions(w) ==
    IF script = "watershaper"
    THEN {[w EXCEPT !.roof = k, !.button = "none"] : k \in RoofTenths \ {w.roof}}
         \cup {[w EXCEPT !.has_rainwell = ~w.has_rainwell, !.button = "none"]}
         \cup {[w EXCEPT !.depth = d, !.button = "none"] : d \in SliderTenths \ {w.depth}}
         \cup {[w EXCEPT !.button = b] :
                 b \in {"Bereken Infiltratiekom", "Bereken Wadi",
                        "Bereken Infiltratiegracht"}}
    ELSE {v \in InfilInputs :
            Cardinality({f \in {"min_surface_area", "min_volume", "depth"} :
                           v[f] # w[f]}) = 1}
         \cup {[w EXCEPT !.button = "Calculate"]}

\* the user changes one widget or clicks one button: the script runs again
Rerun ==
    /\ pc = "done"
    /\ \E w \in Interactions(inp) : inp' = w
    /\ pc' = "run"
    /\ page' = BlankPage
    /\ out' = BlankOut
    /\ minimizer' = IdleMinimizer
    /\ UNCHANGED <<script, session, call>>

Next ==
    \/ Derive
    \/ MinimizeInfiltratiekom
    \/ MinimizeWadi
    \/ ShowEllipsoid
    \/ BerekenInfiltratiegracht
    \/ InfilRun
    \/ InfilMinimize
    \/ InfilShow
    \/ Rerun

Spec == Init /\ [][Next]_vars

(***************************************************************************)
(* Properties of the pages.                                                *)
(***************************************************************************)
Shown == script = "watershaper" /\ pc # "run"
EllipsoidShown ==
    /\ pc = "done"
    /\ inp.button \in {"Bereken Infiltratiekom", "Bereken Wadi", "Calculate"}
DitchShown ==
    /\ script = "watershaper" /\ pc = "done"
    /\ inp.button = "Bereken Infiltratiegracht"

\* the roof after the rainwell adjustment, in tenths of a square metre
AdjustedTenths == inp.roof - (IF inp.has_rainwell THEN 300 ELSE 0)

\* C1: for the roof r left by the optional rainwell adjustment the tank shown
\* is 5000 when r < 80, 7500 when 80 <= r < 120, 10000 when 120 <= r < 200
\* and r * 100 when r >= 200; the edges 80, 120 and 200 belong to the upper
\* tier and a negative r takes the lowest tier.
TankTierShown ==
    Shown =>
      out.tank = IF AdjustedTenths < 800 THEN 5000
                 ELSE IF AdjustedTenths < 1200 THEN 7500
                 ELSE IF AdjustedTenths < 2000 THEN 10000
                 ELSE AdjustedTenths * 10

\* a roof of 230.0 with the rainwell lands on the edge 200 and shows 20000
TankEdgeWitness ==
    /\ Shown /\ pc = "done"
    /\ inp.has_rainwell /\ inp.roof = 2300
    /\ out.tank = 20000

\* C2: with the rainwell checked, min_volume and min_surface_area are
\* (roof - 30) * 33 / 1000 and (roof - 30) * 0.08: they are derived from the
\* adjusted roof the tank lookup uses.
RequirementsFromAdjustedRoof ==
    Shown =>
      /\ page.min_volume = derive_min_volume(page.roof_square_meters)
      /\ page.min_surface_area = derive_min_surface_area(page.roof_square_meters)

\* C6: calculate_ellipsoid of either script invokes the minimizer once and
\* returns the minimizer's point (with the depth, on the watershaper page) if
\* and only if the minimizer reports success, and all None otherwise; on a
\* failure the page shows the error and no dimensions.
EllipsoidOneOutcome ==
    EllipsoidShown =>
      /\ minimizer.calls = 1
      /\ IF minimizer.result.success
         THEN /\ <<page.width, page.length>> = minimizer.result.x
              /\ script = "watershaper" => page.depth = minimizer.request.args[2]
              /\ out.error = ""
              /\ out.result # None
         ELSE /\ page.width = None /\ page.length = None
              /\ script = "watershaper" => page.depth = None
              /\ out.error # ""
              /\ out.result = None

\* the minimizer fails under "Bereken Wadi" and the page shows the error
EllipsoidFailureWitness ==
    /\ EllipsoidShown /\ inp.button = "Bereken Wadi"
    /\ ~minimizer.result.success
    /\ minimizer.calls = 1
    /\ out.error = "Error, controleer parameters"
    /\ out.result = None

\* C7: on both pages a successful solve with semi-axes (a, b) at depth c shows
\* the width 2a and the length 2b; the watershaper page shows the depth c and
\* the surface area and volume of (a, b, c).
DiametersShown ==
    (EllipsoidShown /\ minimizer.result.success) =>
      IF script = "watershaper"
      THEN /\ out.result.Breedte = FFormat(FMul(FromInt(2), minimizer.result.x[1]), 100)
           /\ out.result.Lengte = FFormat(FMul(FromInt(2), minimizer.result.x[2]), 100)
           /\ out.result.Diepte = FFormat(minimizer.request.args[2], 100)
           /\ out.result.Infiltratie_oppervlakte =
                  ellipsoid_surface_area_one_side(minimizer.result.x[1],
                      minimizer.result.x[2], minimizer.request.args[2])
           /\ out.result.Volume =
                  FFormat(ellipsoid_volume(minimizer.result.x[1],
                      minimizer.result.x[2], minimizer.request.args[2]), 100)
      ELSE /\ out.result.Calculated_width =
                  FFormat(FMul(FromInt(2), minimizer.result.x[1]), 100)
           /\ out.result.Calculated_length =
                  FFormat(FMul(FromInt(2), minimizer.result.x[2]), 100)

\* C10: the volume the ditch solver returns is at least min_volume, so the
\* ditch branch of the page never shows the warning that the volume is below
\* the requested amount.
DitchWarningUnreachable ==
    (DitchShown /\ out.exception = "") =>
      /\ ~FLess(page.ditch.volume, page.min_volume)
      /\ out.message # "Opgelet: Volume zit onder gevraagde hoeveelheid."

====
